---- MODULE Spec2Model ----
(***************************************************************************)
(* Model of the parametric curve fitting pipeline: fit_params              *)
(* (src/optimizer.py), load_data (src/data_loader.py), validate_bounds     *)
(* (src/utils.py) and the command line pipeline main (scripts/run_fit.py). *)
(*                                                                         *)
(* Numbers are fixed point: theta_deg and X in tenths, M in thousandths,   *)
(* theta_rad in 1e-4 rad, t in tenths.  A loss is a natural number, or one *)
(* of the two non-finite floats Inf and NaN.                               *)
(***************************************************************************)
EXTENDS Integers, Sequences, FiniteSets, TLC

\* ------------------------------------------------------------- bounds
MaxRestarts == 2
MaxLoss == 1
MaxObs == 2

\* ------------------------------------------------------ optional values
\* Python's None is the empty set, a value v is {v}.
None == {}

Some(s) == CHOOSE v \in s : TRUE

\* ------------------------------------------------------------- floats
\* float('inf'), the initial best_loss
Inf == -2

\* a NaN loss (np.mean over NaN distances)
NaN == -1

LossValues == {NaN, Inf} \cup (0..MaxLoss)

IsFinite(a) == a # NaN /\ a # Inf

\* IEEE-754 a < b on losses: false whenever a NaN takes part
Lt(a, b) ==
    IF a = NaN \/ b = NaN THEN FALSE
    ELSE IF a = Inf THEN FALSE
    ELSE IF b = Inf THEN TRUE
    ELSE a < b

\* ---------------------------------------------------- parameter domain
DefaultBounds ==
    [theta_deg |-> <<1, 499>>, M |-> <<-49, 49>>, X |-> <<1, 999>>]

\* a caller's bounds that touch and leave the validation intervals
WideBounds ==
    [theta_deg |-> <<0, 600>>, M |-> <<-50, 50>>, X |-> <<0, 1000>>]

BoundsArgs == {None, {WideBounds}}

DefaultGuess == <<250, 0, 500>>

OtherGuess == <<100, 10, 200>>

GuessArgs == {None, {OtherGuess}}

SampleCounts == {3}

Seeds == {0, 1}

validate_bounds(theta_deg, M, X) ==
    LET theta_valid == 0 < theta_deg /\ theta_deg < 500
        M_valid == -50 < M /\ M < 50
        X_valid == 0 < X /\ X < 1000
    IN  theta_valid /\ M_valid /\ X_valid

\* np.deg2rad, in 1e-4 rad of tenths of a degree
DegToRad(d) == (d * 31416) \div 18000

\* faulty variant: the grid stops one sample short
get_uniform_t_values_short(n) ==
    [k \in 1..(n - 1) |-> 60 + ((k - 1) * (600 - 60)) \div (n - 1)]

\* np.linspace(t_min, t_max, n)
get_uniform_t_values(n) ==
    IF n = 1 THEN <<60>>
    ELSE [k \in 1..n |-> 60 + ((k - 1) * (600 - 60)) \div (n - 1)]

\* ------------------------------------------------- the shared generator
RngStates == 0..7

\* np.random.seed(seed): the state depends on the seed alone
RngSeed(s) == (3 * s + 1) % 8

\* one draw moves the generator to its next state
RngNext(s) == (5 * s + 3) % 8

\* np.random.uniform(lo, hi) read off generator state u: a value of [lo, hi)
Uniform(b, u) == b[1] + ((b[2] - b[1]) * u) \div 8

\* the state k draws after seeding
RECURSIVE NthState(_, _)
NthState(s, k) == IF k = 0 THEN RngSeed(s) ELSE RngNext(NthState(s, k - 1))

\* ------------------------------------------------- the curve and the loss
\* Coordinates and distances are in tenths, like t and X.  The transcendental
\* functions are tabulated in thousandths at the arguments the grids of one
\* to three samples and the parameter vectors below use.

\* np.cos(theta_rad)
cos_theta(theta_rad) ==
    CASE theta_rad = DegToRad(250) -> 906
      [] theta_rad = DegToRad(300) -> 866

\* np.sin(theta_rad)
sin_theta(theta_rad) ==
    CASE theta_rad = DegToRad(250) -> 423
      [] theta_rad = DegToRad(300) -> 500

\* np.exp(M * np.abs(t))
exp_term(M, t) ==
    CASE M = 0 -> 1000
      [] M = 10 /\ t = 60 -> 1062
      [] M = 10 /\ t = 330 -> 1391
      [] M = 10 /\ t = 600 -> 1822

\* np.sin(0.3 * t)
sin_03t(t) ==
    CASE t = 60 -> 974
      [] t = 330 -> -458
      [] t = 600 -> -751

\* predict: the curve points x(t), y(t) at the values of t
predict(t, theta_deg, M, X) ==
    LET theta_rad == DegToRad(theta_deg)
        wave(k) == (exp_term(M, t[k]) * sin_03t(t[k])) \div 1000
        x == [k \in 1..Len(t) |->
                 (t[k] * cos_theta(theta_rad)) \div 1000
                 - (wave(k) * sin_theta(theta_rad)) \div 100000 + X]
        y == [k \in 1..Len(t) |->
                 420 + (t[k] * sin_theta(theta_rad)) \div 1000
                 + (wave(k) * cos_theta(theta_rad)) \div 100000]
    IN  <<x, y>>

\* np.sqrt, rounded down: the largest r of lo..hi with r * r <= v
RECURSIVE SqrtIn(_, _, _)
SqrtIn(v, lo, hi) ==
    IF lo = hi THEN lo
    ELSE LET m == (lo + hi + 1) \div 2
         IN  IF m * m <= v THEN SqrtIn(v, m, hi) ELSE SqrtIn(v, lo, m - 1)

Sqrt(v) == SqrtIn(v, 0, 4096)

\* the distance of (x1, y1) and (x2, y2)
Dist(x1, y1, x2, y2) ==
    Sqrt((x1 - x2) * (x1 - x2) + (y1 - y2) * (y1 - y2))

RECURSIVE MinUpTo(_, _)
MinUpTo(a, k) ==
    IF k = 1 THEN a[1]
    ELSE LET m == MinUpTo(a, k - 1) IN IF a[k] < m THEN a[k] ELSE m

\* faulty variant: the distance to the first curve point
np_first(a) == a[1]

\* np.min over a non-empty array
np_min(a) == MinUpTo(a, Len(a))

RECURSIVE SumUpTo(_, _)
SumUpTo(a, k) == IF k = 0 THEN 0 ELSE SumUpTo(a, k - 1) + a[k]

\* np.mean over a non-empty array of tenths, in thousandths
np_mean(a) == (100 * SumUpTo(a, Len(a))) \div Len(a)

\* l1_loss: zip pairs the observations up to the shorter array
l1_loss(params, ts, x_obs, y_obs) ==
    LET theta_deg == params[1]
        M == params[2]
        X == params[3]
        pred == predict(ts, theta_deg, M, X)
        x_pred == pred[1]
        y_pred == pred[2]
        n == IF Len(x_obs) < Len(y_obs) THEN Len(x_obs) ELSE Len(y_obs)
        dists(j) ==
            [k \in 1..Len(ts) |->
                Dist(x_pred[k], y_pred[k], x_obs[j], y_obs[j])]
        min_distances == [j \in 1..n |-> np_min(dists(j))]
    IN  np_mean(min_distances)

\* parameter vectors a caller evaluates the loss at
LossParams ==
    {<<250, 0, 500>>, <<250, 10, 500>>, <<300, 0, 500>>, <<300, 10, 400>>}

\* sample grids a caller passes
LossGrids == {get_uniform_t_values(n) : n \in 1..3}

\* observed points of a caller: the points of the default curve on the
\* three-sample grid, and a point off every curve
ObsPoints ==
    LET c == predict(get_uniform_t_values(3),
                     DefaultGuess[1], DefaultGuess[2], DefaultGuess[3])
    IN  {<<c[1][k], c[2][k]>> : k \in 1..3} \cup {<<600, 500>>}

\* the non-empty observed data sets of up to MaxObs points
ObsData == UNION {[1..len -> ObsPoints] : len \in 1..MaxObs}

LossInputs ==
    {[params |-> p, t_samples |-> g,
      x_obs |-> [j \in 1..Len(d) |-> d[j][1]],
      y_obs |-> [j \in 1..Len(d) |-> d[j][2]]] :
        p \in LossParams, g \in LossGrids, d \in ObsData}

\* ------------------------------------------------------------ main's world
Columns == {"x", "y", "z"}

MinRows == 10

RowCounts == {0, MinRows - 1, MinRows}

\* a data source: present or not, its columns, its row count, and the
\* columns that hold a missing value
Files ==
    {[exists |-> FALSE, cols |-> {}, nrows |-> 0, nan |-> {}]} \cup
    {f \in [exists : {TRUE}, cols : SUBSET Columns, nrows : RowCounts,
            nan : SUBSET Columns] :
        /\ f.nan \subseteq f.cols
        /\ (f.nrows = 0 => f.nan = {})}

Ok(f) ==
    [exc |-> "none", msg |-> "", n |-> f.nrows, cols |-> {"x", "y"}]

Raise(exc, msg, n) ==
    [exc |-> exc, msg |-> msg, n |-> n, cols |-> {}]

\* the data frame of a direct caller: 50 rows of x and y
SampleData ==
    [exc |-> "none", msg |-> "", n |-> 50, cols |-> {"x", "y"}]

\* xy_df[column].values: the column's values, one per row of the frame
ColumnValues(df, column) == [column |-> column, rows |-> df.n]

VARIABLES
    pc,             \* position inside fit_params
    xy_df,          \* the data frame it was called with
    n_restarts, seed, initial_guess, bounds, n_samples,   \* its other arguments
    x_obs, y_obs,   \* the observed coordinates taken from the frame
    t_samples,      \* the sample grid
    scipy_bounds,   \* the bounds as the list handed to the minimizers
    i,              \* index of the next restart
    best_result,    \* None or the best minimizer result so far
    best_loss,
    rng,            \* state of the process-wide generator (np.random)
    draws,          \* draws taken from it since the run seeded it
    calls,          \* the minimizer invocations of the run, in order
    nonconv,        \* some minimizer of the run reported success = False
    warned,         \* the run logged the bounds warning
    ret,            \* None or the returned FitResult
    localMemo,      \* what Nelder-Mead returned from each start vector
    deMemo,         \* what differential evolution returned per generator seed
    runs,           \* fit_params calls made directly by the caller
    prev,           \* the caller's previous call: its outcome, and the
                    \* generator state the present call was entered with
    lossArgs,       \* None or the arguments of the caller's l1_loss call
    lossValue,      \* None or what that call returned
    mpc,            \* position inside main
    args,           \* main's parsed arguments
    loadResult,     \* None or what load_data did
    loadAttempts,   \* load_data calls made by main
    fitCalls,       \* fit_params calls made by main
    done,           \* the pipeline steps main has completed, in order
    raisedAt,       \* the step that raised, or "none"
    errLogged,      \* logger.error calls of the handler
    artifacts,      \* files the pipeline has written to the output directory
    exit            \* None or main's return value

fitVars ==
    <<pc, xy_df, n_restarts, seed, initial_guess, bounds, n_samples, x_obs,
      y_obs, t_samples, scipy_bounds, i, best_result, best_loss, rng, draws,
      calls, nonconv, warned, ret, localMemo, deMemo>>

callerVars == <<runs, prev, lossArgs, lossValue>>

mainVars ==
    <<mpc, args, loadResult, loadAttempts, fitCalls, done, raisedAt,
      errLogged, artifacts, exit>>

vars == <<fitVars, callerVars, mainVars>>

\* ----------------------------------------------------------- fit_params
\* faulty variant: the run does not reseed the generator
SeedGeneratorKeepsState(sd, cur) == cur

\* np.random.seed(seed): the generator's old state cur is discarded
SeedGenerator(sd, cur) == RngSeed(sd)

\* bounds = None selects the default box
EffectiveBounds(b) == IF b = None THEN DefaultBounds ELSE Some(b)

\* initial_guess = None selects the default guess
EffectiveGuess(g) == IF g = None THEN DefaultGuess ELSE Some(g)

\* faulty variant: the random vector is drawn before the test of idx, so restart 0
\* consumes three draws as well
StartVectorAlwaysDraws(idx, guess, b, s) ==
    LET s1 == RngNext(s)
        s2 == RngNext(s1)
        s3 == RngNext(s2)
    IN  [x0 |-> IF idx = 0 THEN guess
                ELSE <<Uniform(b.theta_deg, s1), Uniform(b.M, s2),
                       Uniform(b.X, s3)>>,
         rng |-> s3, drawn |-> 3]

\* the start vector of restart idx; s is the generator state before it
StartVector(idx, guess, b, s) ==
    IF idx = 0
    THEN [x0 |-> guess, rng |-> s, drawn |-> 0]
    ELSE LET s1 == RngNext(s)
             s2 == RngNext(s1)
             s3 == RngNext(s2)
         IN  [x0 |-> <<Uniform(b.theta_deg, s1), Uniform(b.M, s2),
                       Uniform(b.X, s3)>>,
              rng |-> s3, drawn |-> 3]

\* faulty variant: a local search that ignores the bounds it is handed
MinimizerPointsUnbounded(b) ==
    { <<b.theta_deg[1], b.M[1], b.X[1]>>,
      <<b.theta_deg[2] + 1, b.M[2] + 1, b.X[2] + 1>> }

\* the points a bound-constrained minimizer may report for box b: both
\* minimizers are handed scipy_bounds and stay inside the closed box
MinimizerPoints(b) ==
    { <<b.theta_deg[1], b.M[1], b.X[1]>>,
      <<(b.theta_deg[1] + b.theta_deg[2]) \div 2, (b.M[1] + b.M[2]) \div 2,
        (b.X[1] + b.X[2]) \div 2>> }

\* the generator differential_evolution(seed=seed) builds for itself
DESeed(sd, cur) == RngSeed(sd)

\* faulty variant: every result replaces the best so far
KeepLatest(fun, best) == TRUE

\* result.fun < best_loss
Better(fun, best) == Lt(fun, best)

\* faulty variant: a restart that did not converge is run again
NextIndexRetry(idx, success) == IF success THEN idx + 1 ELSE idx

\* for i in range(n_restarts): the next index, whatever result.success was
NextIndex(idx, success) == idx + 1

\* faulty variant: the winner is clipped into the validation intervals
Clip(v, lo, hi) == IF v < lo THEN lo ELSE IF v > hi THEN hi ELSE v

PackResultClipped(x, loss) ==
    [theta_deg |-> Clip(x[1], 1, 499),
     theta_rad |-> DegToRad(Clip(x[1], 1, 499)),
     M |-> Clip(x[2], -49, 49), X |-> Clip(x[3], 1, 999), l1 |-> loss]

\* the returned dictionary
PackResult(x, loss) ==
    [theta_deg |-> x[1], theta_rad |-> DegToRad(x[1]), M |-> x[2],
     X |-> x[3], l1 |-> loss]

\* what minimize(l1_loss, x0, ...) may return: the loss is deterministic, so
\* a start vector seen before gives the result it gave before
LocalOutcomes(x0) ==
    IF x0 \in DOMAIN localMemo THEN {localMemo[x0]}
    ELSE [fun : LossValues, x : MinimizerPoints(bounds)]

\* what differential_evolution(..., seed=seed) may return
GlobalOutcomes(key) ==
    IF key \in DOMAIN deMemo THEN {deMemo[key]}
    ELSE [fun : LossValues, x : MinimizerPoints(bounds)]

Remember(memo, key, out) ==
    [k \in (DOMAIN memo) \cup {key} |-> IF k = key THEN out ELSE memo[k]]

\* lines 57-61: the bounds dictionary as SciPy's list of (low, high) pairs
ToScipyBounds(bd) == <<bd.theta_deg, bd.M, bd.X>>

\* lines 39-74: seed, defaults, data, grid, bounds list, accumulator
FitEnter(df, n, sd, g, b, ns) ==
    /\ pc' = "loop"
    /\ xy_df' = df
    /\ n_restarts' = n
    /\ seed' = sd
    /\ initial_guess' = EffectiveGuess(g)
    /\ bounds' = EffectiveBounds(b)
    /\ n_samples' = ns
    /\ x_obs' = ColumnValues(df, "x")
    /\ y_obs' = ColumnValues(df, "y")
    /\ t_samples' = get_uniform_t_values(ns)
    /\ scipy_bounds' = ToScipyBounds(EffectiveBounds(b))
    /\ rng' = SeedGenerator(sd, rng)
    /\ draws' = 0
    /\ i' = 0
    /\ best_result' = None
    /\ best_loss' = Inf
    /\ calls' = <<>>
    /\ nonconv' = FALSE
    /\ warned' = FALSE
    /\ ret' = None

\* lines 77-106: one iteration of the restart loop
LocalRestart ==
    /\ pc = "loop"
    /\ i < n_restarts
    /\ LET sv == StartVector(i, initial_guess, bounds, rng)
       IN  \E out \in LocalOutcomes(sv.x0), success \in BOOLEAN :
             LET result == [kind |-> "local", idx |-> i, x0 |-> sv.x0,
                            args |-> <<t_samples, x_obs, y_obs>>,
                            bounds |-> scipy_bounds,
                            fun |-> out.fun, x |-> out.x]
             IN  /\ rng' = sv.rng
                 /\ draws' = draws + sv.drawn
                 /\ calls' = Append(calls, result)
                 /\ localMemo' = Remember(localMemo, sv.x0, out)
                 /\ nonconv' = (nonconv \/ ~success)
                 /\ IF Better(result.fun, best_loss)
                    THEN /\ best_loss' = result.fun
                         /\ best_result' = {result}
                    ELSE UNCHANGED <<best_loss, best_result>>
                 /\ i' = NextIndex(i, success)
    /\ UNCHANGED <<pc, xy_df, n_restarts, seed, initial_guess, bounds,
                   n_samples, x_obs, y_obs, t_samples, scipy_bounds, warned,
                   ret, deMemo>>
    /\ UNCHANGED <<callerVars, mainVars>>

\* lines 108-123: the differential evolution pass
GlobalPass ==
    /\ pc = "loop"
    /\ i >= n_restarts
    /\ LET key == DESeed(seed, rng)
       IN  \E out \in GlobalOutcomes(key) :
             LET de_result == [kind |-> "global", idx |-> n_restarts,
                               x0 |-> <<>>,
                               args |-> <<t_samples, x_obs, y_obs>>,
                               bounds |-> scipy_bounds,
                               fun |-> out.fun, x |-> out.x]
             IN  /\ calls' = Append(calls, de_result)
                 /\ deMemo' = Remember(deMemo, key, out)
                 /\ IF Better(de_result.fun, best_loss)
                    THEN /\ best_loss' = de_result.fun
                         /\ best_result' = {de_result}
                    ELSE UNCHANGED <<best_loss, best_result>>
    /\ pc' = "extract"
    /\ UNCHANGED <<xy_df, n_restarts, seed, initial_guess, bounds, n_samples,
                   x_obs, y_obs, t_samples, scipy_bounds, i, rng, draws,
                   nonconv, warned, ret, localMemo>>
    /\ UNCHANGED <<callerVars, mainVars>>

\* lines 125-143: unpack best_result.x (an AttributeError when best_result
\* is None), warn when validation fails, package
Package ==
    /\ pc = "extract"
    /\ IF best_result = None
       THEN /\ pc' = "raised"
            /\ UNCHANGED <<warned, ret>>
       ELSE LET x == Some(best_result).x
            IN  /\ warned' = ~validate_bounds(x[1], x[2], x[3])
                /\ ret' = {PackResult(x, best_loss)}
                /\ pc' = "returned"
    /\ UNCHANGED <<xy_df, n_restarts, seed, initial_guess, bounds, n_samples,
                   x_obs, y_obs, t_samples, scipy_bounds, i, best_result,
                   best_loss, rng, draws, calls, nonconv, localMemo, deMemo>>
    /\ UNCHANGED <<callerVars, mainVars>>

\* ------------------------------------------------- a caller of fit_params
\* a first direct call, as the tests make it
DirectCall ==
    /\ mpc = "none"
    /\ pc = "idle"
    /\ runs = 0
    /\ \E n \in 0..MaxRestarts, sd \in Seeds, g \in GuessArgs,
          b \in BoundsArgs, ns \in SampleCounts :
            FitEnter(SampleData, n, sd, g, b, ns)
    /\ localMemo' = <<>>
    /\ deMemo' = <<>>
    /\ runs' = 1
    /\ prev' = None
    /\ UNCHANGED <<lossArgs, lossValue, mainVars>>

\* the same call once more, on the same data
CallAgain ==
    /\ mpc = "none"
    /\ pc \in {"returned", "raised"}
    /\ runs = 1
    /\ FitEnter(xy_df, n_restarts, seed, {initial_guess}, {bounds}, n_samples)
    /\ prev' = {[status |-> pc, ret |-> ret, entered |-> rng]}
    /\ runs' = runs + 1
    /\ UNCHANGED <<localMemo, deMemo>>
    /\ UNCHANGED <<lossArgs, lossValue, mainVars>>

\* the caller's call l1_loss(params, t_samples, x_obs, y_obs)
EvalLoss ==
    /\ lossArgs # None
    /\ lossValue = None
    /\ LET a == Some(lossArgs)
       IN  lossValue' = {l1_loss(a.params, a.t_samples, a.x_obs, a.y_obs)}
    /\ UNCHANGED <<runs, prev, lossArgs>>
    /\ UNCHANGED <<fitVars, mainVars>>

\* faulty variant: the missing value check comes before the row count check
load_data_nan_first(f) ==
    IF ~f.exists
    THEN Raise("FileNotFoundError", "Data file not found", 0)
    ELSE IF "x" \notin f.cols \/ "y" \notin f.cols
    THEN Raise("ValueError", "CSV must contain 'x' and 'y' columns", 0)
    ELSE IF f.nan \cap {"x", "y"} # {}
    THEN Raise("ValueError", "Data contains NaN values", 0)
    ELSE IF f.nrows < MinRows
    THEN Raise("ValueError", "Insufficient data", f.nrows)
    ELSE Ok(f)

\* -------------------------------------------------------------- load_data
load_data(f) ==
    IF ~f.exists
    THEN Raise("FileNotFoundError", "Data file not found", 0)
    ELSE IF "x" \notin f.cols \/ "y" \notin f.cols
    THEN Raise("ValueError", "CSV must contain 'x' and 'y' columns", 0)
    ELSE IF f.nrows < MinRows
    THEN Raise("ValueError", "Insufficient data", f.nrows)
    ELSE IF f.nan \cap {"x", "y"} # {}
    THEN Raise("ValueError", "Data contains NaN values", 0)
    ELSE Ok(f)

\* ------------------------------------------------------------------- main
Steps == <<"load", "fit", "save", "plot_fit", "plot_residuals">>

\* faulty variant: a failed load is tried again
HandlerRetriesLoad(step) == IF step = "load" THEN "load" ELSE "exit1"

\* except Exception: the handler is the end of main, whatever step raised
HandlerTarget(step) == "exit1"

\* return 0
SuccessStatus == 0

\* faulty variant: the handler returns the success status
HandlerStatusIsSuccess == SuccessStatus

\* return 1
HandlerStatus == 1

\* lines 132-134: log the error, return 1
Handle(step) ==
    /\ raisedAt' = step
    /\ errLogged' = errLogged + 1
    /\ mpc' = HandlerTarget(step)
    /\ exit' = IF HandlerTarget(step) = "exit1" THEN {HandlerStatus} ELSE exit

\* lines 75-89: parse_args and setup_logging, outside the try block; a
\* failure there (SystemExit, OSError) leaves main as an exception
MainStart ==
    /\ mpc = "none"
    /\ pc = "idle"
    /\ runs = 0
    /\ \E f \in Files, n \in 0..MaxRestarts, sd \in Seeds,
          ns \in SampleCounts, ok \in BOOLEAN :
            /\ args' = {[data |-> f, n_restarts |-> n, seed |-> sd,
                         n_samples |-> ns]}
            /\ mpc' = IF ok THEN "load" ELSE "propagated"
    /\ UNCHANGED <<loadResult, loadAttempts, fitCalls, done, raisedAt,
                   errLogged, artifacts, exit>>
    /\ UNCHANGED <<fitVars, callerVars>>

\* lines 93-95: df = load_data(args.data)
MainLoad ==
    /\ mpc = "load"
    /\ LET r == load_data(Some(args).data)
       IN  /\ loadResult' = {r}
           /\ loadAttempts' = loadAttempts + 1
           /\ IF r.exc = "none"
              THEN /\ done' = Append(done, "load")
                   /\ mpc' = "fit"
                   /\ UNCHANGED <<raisedAt, errLogged, exit>>
              ELSE /\ Handle("load")
                   /\ UNCHANGED done
    /\ UNCHANGED <<args, fitCalls, artifacts>>
    /\ UNCHANGED <<fitVars, callerVars>>

\* lines 98-104: the call of fit_params, with default bounds and guess
MainFit ==
    /\ mpc = "fit"
    /\ pc = "idle"
    /\ FitEnter(Some(loadResult), Some(args).n_restarts, Some(args).seed,
                None, None, Some(args).n_samples)
    /\ localMemo' = <<>>
    /\ deMemo' = <<>>
    /\ fitCalls' = fitCalls + 1
    /\ mpc' = "fitting"
    /\ UNCHANGED <<args, loadResult, loadAttempts, done, raisedAt,
                   errLogged, artifacts, exit>>
    /\ UNCHANGED callerVars

\* fit_params has returned its dictionary: lines 106-114
MainFitReturn ==
    /\ mpc = "fitting"
    /\ pc = "returned"
    /\ done' = Append(done, "fit")
    /\ mpc' = "save"
    /\ UNCHANGED <<args, loadResult, loadAttempts, fitCalls, raisedAt,
                   errLogged, artifacts, exit>>
    /\ UNCHANGED <<fitVars, callerVars>>

\* fit_params has raised
MainFitRaise ==
    /\ mpc = "fitting"
    /\ pc = "raised"
    /\ Handle("fit")
    /\ UNCHANGED <<args, loadResult, loadAttempts, fitCalls, done,
                   artifacts>>
    /\ UNCHANGED <<fitVars, callerVars>>

\* one output step of the try block: it writes its file, or raises
\* (an OSError of mkdir, open or savefig) and writes nothing
OutputStep(at, step, file, next) ==
    /\ mpc = at
    /\ \E ok \in BOOLEAN :
         IF ok
         THEN /\ artifacts' = artifacts \cup {file}
              /\ done' = Append(done, step)
              /\ mpc' = next
              /\ exit' = IF next = "exit0" THEN {SuccessStatus} ELSE exit
              /\ UNCHANGED <<raisedAt, errLogged>>
         ELSE /\ Handle(step)
              /\ UNCHANGED <<artifacts, done>>
    /\ UNCHANGED <<args, loadResult, loadAttempts, fitCalls>>
    /\ UNCHANGED <<fitVars, callerVars>>

\* lines 117-119
MainSave == OutputStep("save", "save", "params.json", "plot_fit")

\* line 126
MainPlotFit == OutputStep("plot_fit", "plot_fit", "fit_plot.png", "plot_res")

\* lines 127-130
MainPlotResiduals ==
    OutputStep("plot_res", "plot_residuals", "residuals_plot.png", "exit0")

\* ------------------------------------------------------------ the system
\* no fit_params call and no pipeline run has begun
NoCall ==
    /\ pc = "idle"
    /\ n_restarts = 0
    /\ seed = 0
    /\ initial_guess = DefaultGuess
    /\ bounds = DefaultBounds
    /\ n_samples = 0
    /\ xy_df = SampleData
    /\ x_obs = ColumnValues(SampleData, "x")
    /\ y_obs = ColumnValues(SampleData, "y")
    /\ t_samples = <<>>
    /\ scipy_bounds = ToScipyBounds(DefaultBounds)
    /\ i = 0
    /\ best_result = None
    /\ best_loss = Inf
    /\ rng \in RngStates
    /\ draws = 0
    /\ calls = <<>>
    /\ nonconv = FALSE
    /\ warned = FALSE
    /\ ret = None
    /\ localMemo = <<>>
    /\ deMemo = <<>>
    /\ runs = 0
    /\ prev = None
    /\ mpc = "none"
    /\ args = None
    /\ loadResult = None
    /\ loadAttempts = 0
    /\ fitCalls = 0
    /\ done = <<>>
    /\ raisedAt = "none"
    /\ errLogged = 0
    /\ artifacts = {}
    /\ exit = None

Init ==
    /\ NoCall
    /\ lossArgs = None
    /\ lossValue = None

\* a caller that invokes fit_params directly, as the tests do
Next ==
    \/ DirectCall
    \/ CallAgain
    \/ LocalRestart
    \/ GlobalPass
    \/ Package

Spec == Init /\ [][Next]_vars

\* the command line pipeline
MainNext ==
    \/ MainStart
    \/ MainLoad
    \/ MainFit
    \/ LocalRestart
    \/ GlobalPass
    \/ Package
    \/ MainFitReturn
    \/ MainFitRaise
    \/ MainSave
    \/ MainPlotFit
    \/ MainPlotResiduals

SpecMain == Init /\ [][MainNext]_vars

\* a caller that evaluates the loss directly, as the optimizers do
InitLoss ==
    /\ NoCall
    /\ lossArgs \in {{a} : a \in LossInputs}
    /\ lossValue = None

LossNext ==
    \/ EvalLoss

SpecLoss == InitLoss /\ [][LossNext]_vars

\* ================================================================ claims
Ended == pc \in {"returned", "raised"}

\* the FitResult that candidate c would be packaged into
ResultOf(c) ==
    [theta_deg |-> c.x[1], theta_rad |-> DegToRad(c.x[1]), M |-> c.x[2],
     X |-> c.x[3], l1 |-> c.fun]

\* candidate k has the least loss of the run (NaN losses compare with
\* nothing and are left out) and no earlier candidate has the same loss
IsFirstMinimum(k) ==
    /\ calls[k].fun # NaN
    /\ \A j \in 1..Len(calls) :
         /\ ~Lt(calls[j].fun, calls[k].fun)
         /\ (j < k => calls[j].fun # calls[k].fun)

\* C1: for any n_restarts and any losses the restarts and the global pass
\* report, fit_params returns the candidate of least loss, and among equal
\* losses the one computed first (restart 0, 1, ..., then the global pass).
C1_ReturnsFirstMinimum ==
    Ended =>
      \A k \in 1..Len(calls) :
        IsFirstMinimum(k) =>
          /\ pc = "returned"
          /\ best_result = {calls[k]}
          /\ ret = {ResultOf(calls[k])}

\* the part of C1 the code keeps: a run that returns, returns the first
\* candidate of least loss
SelectionWhenReturned ==
    pc = "returned" =>
      \E k \in 1..Len(calls) :
        /\ IsFirstMinimum(k)
        /\ best_result = {calls[k]}
        /\ ret = {ResultOf(calls[k])}

LocalCall(k) == calls[k].kind = "local" /\ calls[k].idx = k - 1

\* C2: a run executes exactly n_restarts local minimizations, in index
\* order 0..n_restarts-1, then exactly one global pass, whatever losses the
\* restarts reached and whether or not they converged.
C2_CallOrder ==
    /\ pc = "loop" =>
         /\ Len(calls) = i
         /\ i <= n_restarts
         /\ \A k \in 1..Len(calls) : LocalCall(k)
    /\ pc \in {"extract", "returned", "raised"} =>
         /\ Len(calls) = n_restarts + 1
         /\ \A k \in 1..n_restarts : LocalCall(k)
         /\ calls[n_restarts + 1].kind = "global"

\* a completed run of two restarts, one of them not converged, the first
\* already at loss 0: the global pass ran all the same
C2_Witness ==
    /\ pc = "returned"
    /\ n_restarts = 2
    /\ nonconv
    /\ calls[1].fun = 0
    /\ calls[3].kind = "global"

\* the start vector of restart idx as seed, bounds and index give it
ExpectedStart(sd, b, g, idx) ==
    IF idx = 0 THEN g
    ELSE <<Uniform(b.theta_deg, NthState(sd, 3 * (idx - 1) + 1)),
           Uniform(b.M, NthState(sd, 3 * (idx - 1) + 2)),
           Uniform(b.X, NthState(sd, 3 * (idx - 1) + 3))>>

\* C3: restart 0 starts from the initial guess and takes no draw; restart
\* i >= 1 starts from three fresh draws (theta_deg, M, X), each advancing the
\* generator, so its start vector is a function of seed, bounds and i.
C3_StartVectors ==
    pc # "idle" =>
      /\ \A k \in 1..Len(calls) :
           calls[k].kind = "local" =>
             calls[k].x0 =
               ExpectedStart(seed, bounds, initial_guess, calls[k].idx)
      /\ draws = (IF i <= 1 THEN 0 ELSE 3 * (i - 1))
      /\ rng = NthState(seed, draws)
      /\ \A d \in 1..draws : NthState(seed, d) # NthState(seed, d - 1)

\* a run of two restarts: restart 0 from the default guess without a draw,
\* restart 1 from three draws
C3_Witness ==
    /\ Ended
    /\ n_restarts = 2
    /\ calls[1].x0 = <<250, 0, 500>>
    /\ calls[2].x0 # calls[1].x0
    /\ draws = 3

\* C4: two runs with the same arguments and seed end the same way and
\* return the same FitResult, whatever the generator's state was at entry.
C4_Deterministic ==
    (prev # None /\ Ended) =>
      /\ Some(prev).status = pc
      /\ Some(prev).ret = ret

\* a second run with random restarts, entered with the generator in a state
\* other than the seeded one
C4_Witness ==
    /\ prev # None
    /\ pc = "returned"
    /\ n_restarts = 2
    /\ Some(prev).entered # RngSeed(seed)

InValidRange(r) ==
    /\ 0 < r.theta_deg /\ r.theta_deg < 500
    /\ -50 < r.M /\ r.M < 50
    /\ 0 < r.X /\ r.X < 1000

FiniteNonNegative(l) == IsFinite(l) /\ l >= 0

\* the box lies strictly inside the validation intervals
StrictlyInsideValidation(b) ==
    /\ 0 < b.theta_deg[1] /\ b.theta_deg[2] < 500
    /\ -50 < b.M[1] /\ b.M[2] < 50
    /\ 0 < b.X[1] /\ b.X[2] < 1000

\* C5 as stated: every returned FitResult, with default or overridden
\* bounds, lies in the validation intervals and has a finite l1 >= 0.
C5_Original ==
    pc = "returned" =>
      /\ InValidRange(Some(ret))
      /\ FiniteNonNegative(Some(ret).l1)

\* C5 amended: every returned FitResult has a finite l1 >= 0, and lies in
\* the validation intervals when the bounds of the run lie strictly inside
\* them (as the default bounds do).
C5_Amended ==
    pc = "returned" =>
      /\ FiniteNonNegative(Some(ret).l1)
      /\ (StrictlyInsideValidation(bounds) => InValidRange(Some(ret)))

\* a run with the default bounds returns a corner of the search box
C5_Witness ==
    /\ pc = "returned"
    /\ bounds = DefaultBounds
    /\ Some(ret).theta_deg = 1
    /\ Some(ret).X = 1

\* C6: a winner that fails validate_bounds only sets off the warning: the
\* FitResult is returned with the winner's theta_deg, M, X and loss as they
\* are, and no run that has a winner raises.
C6_WarnOnly ==
    /\ pc = "returned" =>
         LET w == Some(best_result)
             r == Some(ret)
         IN  /\ r.theta_deg = w.x[1]
             /\ r.M = w.x[2]
             /\ r.X = w.x[3]
             /\ r.l1 = w.fun
             /\ warned = ~validate_bounds(w.x[1], w.x[2], w.x[3])
    /\ pc = "raised" => best_result = None

\* a returned winner outside the validation intervals
C6_Witness ==
    /\ pc = "returned"
    /\ warned
    /\ ~InValidRange(Some(ret))

\* C7: every run returns a FitResult, whatever the minimizers report: at
\* the end of the searches a best result exists, and the run does not raise.
C7_AlwaysReturns ==
    /\ pc = "extract" => best_result # None
    /\ pc # "raised"

Missing(f) == ~f.exists

NoColumns(f) == "x" \notin f.cols \/ "y" \notin f.cols

TooFew(f) == f.nrows < 10

HasMissingValues(f) == f.nan \cap {"x", "y"} # {}

ErrorOf(r) == <<r.exc, r.msg>>

SourceError == <<"FileNotFoundError", "Data file not found">>

ColumnsError == <<"ValueError", "CSV must contain 'x' and 'y' columns">>

RowsError == <<"ValueError", "Insufficient data">>

ValuesError == <<"ValueError", "Data contains NaN values">>

\* C8: load_data fails with its own error for each of: missing source,
\* missing x or y column, fewer than 10 rows, missing values in x or y; the
\* first of these that holds decides the error; the x,y data is returned
\* only when none holds.
C8_LoadErrors ==
    loadResult # None =>
      LET f == Some(args).data
          r == Some(loadResult)
      IN  /\ (r.exc = "none") <=>
                ~(Missing(f) \/ NoColumns(f) \/ TooFew(f)
                  \/ HasMissingValues(f))
          /\ (r.exc = "none" => r.cols = {"x", "y"} /\ r.n = f.nrows)
          /\ (Missing(f) => ErrorOf(r) = SourceError)
          /\ (~Missing(f) /\ NoColumns(f) => ErrorOf(r) = ColumnsError)
          /\ (~Missing(f) /\ ~NoColumns(f) /\ TooFew(f) =>
                ErrorOf(r) = RowsError)
          /\ (~Missing(f) /\ ~NoColumns(f) /\ ~TooFew(f)
                /\ HasMissingValues(f) => ErrorOf(r) = ValuesError)
          /\ Cardinality({SourceError, ColumnsError, RowsError,
                          ValuesError}) = 4

\* a source with too few rows and a missing x value: the row count error
C8_Witness ==
    /\ loadResult # None
    /\ TooFew(Some(args).data)
    /\ HasMissingValues(Some(args).data)
    /\ ErrorOf(Some(loadResult)) = RowsError

LoadFailed == loadResult # None /\ Some(loadResult).exc # "none"

\* C9: when load_data raises, main ends there: fit_params is never called,
\* no minimizer runs, no params.json and no plot is written, and load_data
\* is not called again.
C9_LoadFailureStopsPipeline ==
    LoadFailed =>
      /\ fitCalls = 0
      /\ pc = "idle"
      /\ calls = <<>>
      /\ artifacts = {}
      /\ loadAttempts = 1
      /\ mpc = "exit1"
      /\ raisedAt = "load"

C9_Witness ==
    /\ LoadFailed
    /\ mpc = "exit1"
    /\ exit = {1}

IsPrefix(p, q) == Len(p) <= Len(q) /\ \A k \in 1..Len(p) : p[k] = q[k]

\* C10: main returns 0 only after load, fit, save and both plots completed
\* in that order; whatever is raised in one of them is caught once, logged
\* once and turned into status 1, and does not leave main.
C10_ExitStatus ==
    /\ IsPrefix(done, Steps)
    /\ exit = {0} =>
         /\ done = Steps
         /\ raisedAt = "none"
         /\ artifacts = {"params.json", "fit_plot.png", "residuals_plot.png"}
    /\ raisedAt # "none" =>
         /\ mpc = "exit1"
         /\ exit = {1}
         /\ errLogged = 1
    /\ (mpc = "exit1" <=> raisedAt # "none")
    /\ errLogged <= 1
    /\ mpc = "propagated" => (done = <<>> /\ loadAttempts = 0)

\* the last step raises after the four before it completed: status 1
C10_Witness ==
    /\ raisedAt = "plot_residuals"
    /\ done = <<"load", "fit", "save", "plot_fit">>
    /\ exit = {1}

\* the curve points l1_loss call a samples
CurvePoints(a) ==
    LET c == predict(a.t_samples, a.params[1], a.params[2], a.params[3])
    IN  {<<c[1][k], c[2][k]>> : k \in 1..Len(a.t_samples)}

\* the least distance from observed point j of call a to a sampled curve point
LeastDistance(a, j) ==
    LET ds == {Dist(p[1], p[2], a.x_obs[j], a.y_obs[j]) : p \in CurvePoints(a)}
    IN  CHOOSE d \in ds : \A e \in ds : d <= e

RECURSIVE TotalLeast(_, _)
TotalLeast(a, j) ==
    IF j = 0 THEN 0 ELSE TotalLeast(a, j - 1) + LeastDistance(a, j)

OnCurve(a, j) == <<a.x_obs[j], a.y_obs[j]>> \in CurvePoints(a)

\* C11: the value l1_loss returns is the mean, over the observed points, of the
\* least distance from the point to a sampled curve point (in thousandths,
\* rounded down); it is not negative; and it is 0 when every observed point is
\* one of the sampled curve points.
C11_LossIsMeanMinDistance ==
    lossValue # None =>
        LET a == Some(lossArgs)
            v == Some(lossValue)
            N == Len(a.x_obs)
        IN  /\ N * v <= 100 * TotalLeast(a, N)
            /\ 100 * TotalLeast(a, N) < N * (v + 1)
            /\ v >= 0
            /\ ((\A j \in 1..N : OnCurve(a, j)) => v = 0)

\* l1_loss returned 0 for two different observed points that lie on a curve
\* sampled at three values of t
C11_Witness ==
    /\ lossValue = {0}
    /\ LET a == Some(lossArgs)
       IN  /\ Len(a.t_samples) = 3
           /\ Len(a.x_obs) = 2
           /\ <<a.x_obs[1], a.y_obs[1]>> # <<a.x_obs[2], a.y_obs[2]>>
           /\ \A j \in 1..2 : OnCurve(a, j)

\* C12: from the moment a run of fit_params enters its restart loop, the grid
\* has n_samples points, the observed coordinates are the columns of the frame
\* the run was called with and the bounds list is the run's bounds box; and
\* every minimizer call the run has made so far, local or global, was handed
\* that grid, those observed coordinates and that bounds list.
C12_SameGridDataAndBox ==
    pc # "idle" =>
        /\ Len(t_samples) = n_samples
        /\ x_obs = ColumnValues(xy_df, "x")
        /\ y_obs = ColumnValues(xy_df, "y")
        /\ scipy_bounds = ToScipyBounds(bounds)
        /\ \A k \in 1..Len(calls) :
            /\ calls[k].args = <<t_samples, x_obs, y_obs>>
            /\ calls[k].bounds = scipy_bounds

\* a run with caller-supplied bounds has made two local restarts and the
\* global pass
C12_Witness ==
    /\ pc = "returned"
    /\ bounds = WideBounds
    /\ n_samples = 3
    /\ Len(calls) = 3
    /\ calls[1].kind = "local"
    /\ calls[2].kind = "local"
    /\ calls[3].kind = "global"

\* the accumulator and, after the return, the packaged result agree with one
\* candidate of the run
AccumulatorAgrees ==
    /\ best_result # None =>
        /\ best_loss = Some(best_result).fun
        /\ \E k \in 1..Len(calls) : calls[k] = Some(best_result)
    /\ pc = "returned" =>
        /\ best_result # None
        /\ ret # None
        /\ LET r == Some(ret)
               c == Some(best_result)
           IN  /\ r.l1 = c.fun
               /\ r.theta_deg = c.x[1]
               /\ r.M = c.x[2]
               /\ r.X = c.x[3]
               /\ r.theta_rad = DegToRad(r.theta_deg)

\* a step of a run in progress leaves best_loss as it is or lowers it
NeverIncreases ==
    pc \in {"loop", "extract"} =>
        (best_loss' = best_loss \/ Lt(best_loss', best_loss))

\* C13: throughout a run of fit_params, whenever best_result is set best_loss
\* is the loss reported by that result, which is one of the run's minimizer
\* results; no step of the run raises best_loss; and the returned l1, theta_deg,
\* M and X are those of that one result, theta_rad being the radian conversion
\* of the returned theta_deg.
C13_AccumulatorConsistent == []AccumulatorAgrees /\ [][NeverIncreases]_vars

\* the pipeline's fit returned the first restart's result, found at loss 0,
\* after a later restart and the global pass reported a higher loss
C13_Witness ==
    /\ mpc = "fitting"
    /\ pc = "returned"
    /\ Len(calls) = 3
    /\ Some(best_result) = calls[1]
    /\ calls[1].fun = 0
    /\ calls[2].fun = 1
    /\ calls[3].fun = 1
    /\ Some(ret).l1 = 0

====
